---- MODULE Spec2Model ----
(***************************************************************************)
(* Ship proxy / offshore proxy: many local client handlers are multiplexed *)
(* onto one persistent TCP connection.  src/ship_proxy.py is the local     *)
(* side (ShipProxy pump + ProxyHTTPRequestHandler), src/offshore_proxy.py  *)
(* the remote side (OffshoreProxy).                                        *)
(*                                                                         *)
(* Bytes are integers 0..255; a byte string is a sequence of them; text is *)
(* its ASCII/UTF-8 encoding.  A Python value that may be None is a         *)
(* sequence of length 0 (None) or 1 (<<v>>).                               *)
(***************************************************************************)
EXTENDS Integers, Sequences, FiniteSets, TLC

\* ------------------------------------------------------------------ bounds
\* number of client connections (one ProxyHTTPRequestHandler thread each)
NumClients == 2
\* longest payload enumerated for the framing round trip
MaxPayload == 3
\* length of the one long payload of the framing round trip (needs two
\* length bytes)
LongPayload == 257
MaxPeerFrames == 2

Clients == 1..NumClients

\* ------------------------------------------------------- byte-string tools
SP == 32
CR == 13
LF == 10
COLON == 58
SLASH == 47
HTAB == 9

CRLF == << CR, LF >>

Min(a, b) == IF a < b THEN a ELSE b

Take(s, n) == SubSeq(s, 1, Min(n, Len(s)))

Drop(s, n) == SubSeq(s, Min(n, Len(s)) + 1, Len(s))

StartsWith(s, p) == /\ Len(s) >= Len(p)
                    /\ SubSeq(s, 1, Len(p)) = p

\* str.find: 1-based index of the first occurrence of pat in s, 0 if none
RECURSIVE FindFrom(_, _, _)
FindFrom(s, pat, i) ==
    IF i + Len(pat) - 1 > Len(s) THEN 0
    ELSE IF SubSeq(s, i, i + Len(pat) - 1) = pat THEN i
    ELSE FindFrom(s, pat, i + 1)

Find(s, pat) == FindFrom(s, pat, 1)

\* str.split(sep, maxsplit): maxsplit < 0 means no limit
RECURSIVE Split(_, _, _)
Split(s, sep, maxsplit) ==
    LET i == Find(s, sep)
    IN  IF maxsplit = 0 \/ i = 0 THEN << s >>
        ELSE << SubSeq(s, 1, i - 1) >>
             \o Split(Drop(s, i + Len(sep) - 1), sep, maxsplit - 1)

\* str.lower on ASCII text
Lower(s) == [i \in 1..Len(s) |-> IF s[i] >= 65 /\ s[i] <= 90 THEN s[i] + 32 ELSE s[i]]

IsSpace(c) == c \in {SP, HTAB, CR, LF, 11, 12}

RECURSIVE LStrip(_)
LStrip(s) == IF s # << >> /\ IsSpace(s[1]) THEN LStrip(Tail(s)) ELSE s

RECURSIVE RStrip(_)
RStrip(s) == IF s # << >> /\ IsSpace(s[Len(s)]) THEN RStrip(SubSeq(s, 1, Len(s) - 1)) ELSE s

\* str.strip
Strip(s) == RStrip(LStrip(s))

\* str(int) for a non-negative integer, as ASCII digits
RECURSIVE IntToStr(_)
IntToStr(n) == IF n < 10 THEN << 48 + n >>
               ELSE IntToStr(n \div 10) \o << 48 + (n % 10) >>

IsDigits(s) == s # << >> /\ \A i \in 1..Len(s) : s[i] >= 48 /\ s[i] <= 57

\* int(str) for ASCII digits
RECURSIVE StrToInt(_)
StrToInt(s) == IF s = << >> THEN 0
               ELSE 10 * StrToInt(SubSeq(s, 1, Len(s) - 1)) + (s[Len(s)] - 48)

\* Python truthiness of an optional bytes value: None and b'' are both false
Truthy(opt) == opt # << >> /\ opt[1] # << >>

\* the same for an optional str held as a TLA+ string
TruthyStr(opt) == opt # << >> /\ opt[1] # ""

None == << >>

Some(v) == << v >>

\* --------------------------------------------------------- text constants
\* ' HTTP/1.1\r\n'
HTTP11_CRLF ==
    << 32, 72, 84, 84, 80, 47, 49, 46, 49, 13, 10 >>
\* 'GET'
GET ==
    << 71, 69, 84 >>
\* 'CONNECT'
CONNECT ==
    << 67, 79, 78, 78, 69, 67, 84 >>
\* 'HTTP/1.1 200 Connection Established\r\n\r\n'
ConnectionEstablished ==
    << 72, 84, 84, 80, 47, 49, 46, 49, 32, 50, 48, 48, 32, 67, 111, 110, 110, 101, 99, 116, 105, 111, 110, 32, 69, 115, 116, 97, 98, 108, 105, 115, 104, 101, 100, 13, 10, 13, 10 >>
\* 'HTTP/1.1 '
HTTP11_SP ==
    << 72, 84, 84, 80, 47, 49, 46, 49, 32 >>
\* '\r\nContent-Type: text/html\r\nContent-Length: 54\r\n\r\n<html><body><h1>'
ErrHeaders ==
    << 13, 10, 67, 111, 110, 116, 101, 110, 116, 45, 84, 121, 112, 101, 58, 32, 116, 101, 120, 116, 47, 104, 116, 109, 108, 13, 10, 67, 111, 110, 116, 101, 110, 116, 45, 76, 101, 110, 103, 116, 104, 58, 32, 53, 52, 13, 10, 13, 10, 60, 104, 116, 109, 108, 62, 60, 98, 111, 100, 121, 62, 60, 104, 49, 62 >>
\* '</h1></body></html>'
ErrTail ==
    << 60, 47, 104, 49, 62, 60, 47, 98, 111, 100, 121, 62, 60, 47, 104, 116, 109, 108, 62 >>
\* 'Internal Server Error'
InternalServerError ==
    << 73, 110, 116, 101, 114, 110, 97, 108, 32, 83, 101, 114, 118, 101, 114, 32, 69, 114, 114, 111, 114 >>
\* 'Bad Gateway'
BadGateway ==
    << 66, 97, 100, 32, 71, 97, 116, 101, 119, 97, 121 >>
\* 'Bad Request - No host specified'
NoHostSpecified ==
    << 66, 97, 100, 32, 82, 101, 113, 117, 101, 115, 116, 32, 45, 32, 78, 111, 32, 104, 111, 115, 116, 32, 115, 112, 101, 99, 105, 102, 105, 101, 100 >>
\* 'host:'
host_colon ==
    << 104, 111, 115, 116, 58 >>
\* 'https'
https ==
    << 104, 116, 116, 112, 115 >>
\* '/x'
UrlOrigin ==
    << 47, 120 >>
\* 'a:443'
UrlAuthority ==
    << 97, 58, 52, 52, 51 >>
\* 'Host'
HostHeader ==
    << 72, 111, 115, 116 >>
\* 'OK'
DestReply ==
    << 79, 75 >>

\* ------------------------------------------------------------- the framing
\* struct.pack('>I', n): four bytes, most significant first
Pack32(n) == << (n \div 16777216) % 256, (n \div 65536) % 256, (n \div 256) % 256, n % 256 >>

\* struct.unpack('>I', b)[0]
Unpack32(b) == ((b[1] * 256 + b[2]) * 256 + b[3]) * 256 + b[4]

\* the bytes ShipProxy.send_message / OffshoreProxy.send_message hand to
\* sendall: header (length, type) then payload
send_message(msg_type, payload) == Pack32(Len(payload)) \o << msg_type >> \o payload

\* ------------------------------------------------------ ShipProxy, requests
\* ShipProxy.build_request_string followed by .encode('utf-8'); headers is
\* the dict as a sequence of <<name, value>> pairs in insertion order
RECURSIVE HeaderLines(_)
HeaderLines(headers) ==
    IF headers = << >> THEN << >>
    ELSE headers[1][1] \o << COLON, SP >> \o headers[1][2] \o CRLF \o HeaderLines(Tail(headers))

build_request_string(item) ==
    item.method \o << SP >> \o item.url \o HTTP11_CRLF
        \o HeaderLines(item.headers) \o CRLF \o item.body

\* --------------------------------------------------- OffshoreProxy, pieces
\* OffshoreProxy.create_error_response
create_error_response(status_code, status_text) ==
    HTTP11_SP \o IntToStr(status_code) \o << SP >> \o status_text \o ErrHeaders
        \o IntToStr(status_code) \o << SP >> \o status_text \o ErrTail

\* OffshoreProxy.handle_connect_request: the canned answer, no socket opened
handle_connect_request(target) == ConnectionEstablished

\* urllib.parse.urlparse(url), the fields handle_http_request uses: scheme,
\* hostname and port of a URL of the forms  scheme://host[:port]/path  and
\* /path  (no userinfo, no IPv6 literal).  Each stage is an operator of the
\* values the stage before it computed.
\* index of the ':' that ends the scheme, 0 when the URL has no scheme
SchemeEnd(url) ==
    LET c == Find(url, << COLON >>)
    IN  IF c > 1 /\ \A i \in 1..(c - 1) : Lower(url)[i] >= 97 /\ Lower(url)[i] <= 122
        THEN c ELSE 0

\* the network location of what follows '//': up to the next '/'
NetlocOf(after) ==
    LET e == Find(after, << SLASH >>)
    IN  IF e = 0 THEN after ELSE SubSeq(after, 1, e - 1)

\* hostname and port out of the network location
SplitNetloc(scheme, netloc, p) ==
    [scheme   |-> scheme,
     hostname |-> IF (IF p = 0 THEN netloc ELSE SubSeq(netloc, 1, p - 1)) = << >> THEN None
                  ELSE Some(Lower(IF p = 0 THEN netloc ELSE SubSeq(netloc, 1, p - 1))),
     port     |-> IF p # 0 /\ IsDigits(Drop(netloc, p)) THEN Some(StrToInt(Drop(netloc, p)))
                  ELSE None,
     bad_port |-> p # 0 /\ Drop(netloc, p) # << >> /\ ~IsDigits(Drop(netloc, p))]

ParseNetloc(scheme, netloc) == SplitNetloc(scheme, netloc, Find(netloc, << COLON >>))

ParseRest(scheme, rest) ==
    ParseNetloc(scheme, IF StartsWith(rest, << SLASH, SLASH >>) THEN NetlocOf(Drop(rest, 2))
                        ELSE << >>)

ParseFrom(url, c) ==
    ParseRest(IF c > 0 THEN Lower(SubSeq(url, 1, c - 1)) ELSE << >>, Drop(url, c))

urlparse(url) == ParseFrom(url, SchemeEnd(url))

\* the loop of handle_http_request that takes the host from the first
\* header line starting with 'host:' (lines[1:])
RECURSIVE HostFromHeaders(_)
HostFromHeaders(lines) ==
    IF lines = << >> THEN None
    ELSE IF StartsWith(Lower(lines[1]), host_colon)
         THEN Some(Strip(Split(lines[1], << COLON >>, 1)[2]))
         ELSE HostFromHeaders(Tail(lines))

\* host and port handle_http_request connects to, from the parsed URL; host
\* is None when neither the URL nor a Host header names one
TargetOf(request_str, parsed_url) ==
    [host     |-> IF Truthy(parsed_url.hostname) THEN parsed_url.hostname
                  ELSE HostFromHeaders(Tail(Split(request_str, CRLF, -1))),
     port     |-> IF parsed_url.port # None /\ parsed_url.port # << 0 >> THEN parsed_url.port[1]
                  ELSE IF parsed_url.scheme = https THEN 443 ELSE 80,
     bad_port |-> parsed_url.bad_port]

Target(request_str, url) == TargetOf(request_str, urlparse(url))

\* OffshoreProxy.handle_http_request once the target t is known.  dest is
\* what the destination does with this connection: "refused" (resolution
\* or connect fails, connect raises), "timeout0" (connected, no byte within
\* the 5 s inactivity timeout), "reply" (connected, sends dest.data, then
\* closes or goes quiet).  Result: the response bytes, whether a connection
\* was attempted, and the destination connection opened, if any.
ConnectAndRelay(request_str, t, dest) ==
    IF t.bad_port
    THEN [response |-> create_error_response(502, BadGateway),
          attempted |-> FALSE, opened |-> None]
    ELSE IF ~Truthy(t.host)
    THEN [response |-> create_error_response(400, NoHostSpecified),
          attempted |-> FALSE, opened |-> None]
    ELSE IF dest.kind = "refused"
    THEN [response |-> create_error_response(502, BadGateway),
          attempted |-> TRUE, opened |-> None]
    ELSE [response  |-> IF dest.kind = "timeout0" THEN << >> ELSE dest.data,
          attempted |-> TRUE,
          opened    |-> Some([host |-> t.host[1], port |-> t.port, sent |-> request_str])]

\* OffshoreProxy.handle_http_request
handle_http_request(request_str, url, dest) ==
    ConnectAndRelay(request_str, Target(request_str, url), dest)

\* bytes.decode('utf-8') succeeds on ASCII; the requests of this model are
\* ASCII, a byte above 127 stands for an undecodable input
Decodable(b) == \A i \in 1..Len(b) : b[i] < 128

\* the request line split(' ', 2) of the decoded request
RequestLineParts(request_str) == Split(Split(request_str, CRLF, -1)[1], << SP >>, 2)

\* process_request that never recognises CONNECT
Dispatch_no_connect(request_str, parts, dest) ==
    IF Len(parts) # 3
    THEN [response |-> create_error_response(500, InternalServerError),
          attempted |-> FALSE, opened |-> None]
    ELSE handle_http_request(request_str, parts[2], dest)

\* OffshoreProxy.process_request after the decoding and the two splits:
\* the unpacking of the request line and the method test
Dispatch(request_str, parts, dest) ==
    IF Len(parts) # 3
    THEN [response |-> create_error_response(500, InternalServerError),
          attempted |-> FALSE, opened |-> None]
    ELSE IF parts[1] = CONNECT
    THEN [response |-> handle_connect_request(parts[2]),
          attempted |-> FALSE, opened |-> None]
    ELSE handle_http_request(request_str, parts[2], dest)

\* OffshoreProxy.process_request
process_request(request_data, dest) ==
    IF ~Decodable(request_data)
    THEN [response |-> create_error_response(500, InternalServerError),
          attempted |-> FALSE, opened |-> None]
    ELSE Dispatch(request_data, RequestLineParts(request_data), dest)

\* ------------------------------------------------------------------- state
VARIABLES
    started,          \* ShipProxy.start: "init" before the call, then "ok" / "failed"
    running,          \* ShipProxy.running
    connected,        \* ShipProxy.connected
    request_queue,    \* ShipProxy.request_queue: the RequestItems (by client) in FIFO order
    req,              \* per client: None, or the RequestItem's method, url, headers, body
    response,         \* per client: RequestItem.response (None or bytes)
    error,            \* per client: RequestItem.error (None or str)
    response_event,   \* per client: RequestItem.response_event is set
    hpc,              \* per client: where handle_request stands
    timedOut,         \* per client: response_event.wait returned by timeout
    outcome,          \* per client: what handle_request wrote to the client
    ppc,              \* where process_requests stands
    cur,              \* process_requests: request_item (a client, 0 when none)
    plen,             \* read_response: length of the header just read
    link,             \* the upstream TCP connection: "none", "up", "down"
    up,               \* bytes written by the ship, not yet read by the offshore side
    down,             \* bytes written by the offshore side, not yet read by the ship
    opc,              \* where handle_ship_connection stands
    olen,             \* handle_ship_connection: length
    oreq,             \* handle_ship_connection: request_data
    oresp,            \* handle_ship_connection: response
    enq_log,          \* history: clients in the order of request_queue.put
    deq_log,          \* history: clients in the order of request_queue.get
    sent_log,         \* history: clients whose request frame was written upstream, in order
    done_log,         \* history: clients whose exchange ended (response read, or failure)
    read_log,         \* history: <<client of the latest frame written, payload read_response returned>>
    served,           \* history: per request frame processed remotely, the destination's
                      \*          behaviour, the connection opened and the response
    out_log,          \* history: the frames the offshore side wrote, as <<type, payload>>
    broken,           \* history: clients queued or in flight when the connection broke
    afterDown,        \* history: clients that enqueued after the connection broke
    f_pc,             \* framing round trip: "off", "init", "header", "payload", "done"
    f_msg,            \* framing round trip: the <<type, payload>> written
    f_stream,         \* framing round trip: the bytes on the wire, not yet read
    f_data,           \* framing round trip: _recv_all's data, the bytes collected so far
    f_len,            \* framing round trip: length read from the header
    f_out,            \* framing round trip: what the reader returned
    f_closed,         \* framing round trip: None, or the number of bytes the peer wrote
                      \*          before it closed the connection
    gaveUp,           \* history: clients whose wait timed out while their item was
                      \*          still on the queue
    peer_log          \* history: the frames written by a peer that is not the other
                      \*          proxy, as <<type, payload>>

shipVars  == << started, running, connected, request_queue, req, response, error,
                response_event, hpc, timedOut, outcome, ppc, cur, plen >>
wireVars  == << link, up, down >>
offVars   == << opc, olen, oreq, oresp >>
histVars  == << enq_log, deq_log, sent_log, done_log, read_log, served, out_log,
                broken, afterDown >>
frameVars == << f_pc, f_msg, f_stream, f_data, f_len, f_out, f_closed >>
peerVars  == << gaveUp, peer_log >>

vars == << shipVars, wireVars, offVars, histVars, frameVars, peerVars >>

\* ---------------------------------------------------------- model inputs
\* the requests a client may make: the parsed method, path, headers and
\* body that BaseHTTPRequestHandler hands to handle_request
ReqKinds ==
    { [method |-> GET,     url |-> UrlOrigin,    headers |-> << << HostHeader, << 97 >> >> >>, body |-> << >>],
      [method |-> CONNECT, url |-> UrlAuthority, headers |-> << >>,                            body |-> << >>] }

\* what a destination server may do with one connection
DestBehaviours ==
    { [kind |-> "refused",  data |-> << >>],
      [kind |-> "timeout0", data |-> << >>],
      [kind |-> "reply",    data |-> << >>],
      [kind |-> "reply",    data |-> DestReply] }

\* str(e) of the exceptions the upstream socket raises
SendErrors == { "[Errno 32] Broken pipe" }

Range(s) == { s[i] : i \in 1..Len(s) }

\* --------------------------------------------------------------- Init
FrameIdle ==
    /\ f_pc = "off"
    /\ f_msg = << 0, << >> >>
    /\ f_stream = << >>
    /\ f_data = << >>
    /\ f_len = 0
    /\ f_out = None
    /\ f_closed = None

SystemInit ==
    /\ started = "init"
    /\ running = FALSE
    /\ connected = FALSE
    /\ request_queue = << >>
    /\ req = [h \in Clients |-> None]
    /\ response = [h \in Clients |-> None]
    /\ error = [h \in Clients |-> None]
    /\ response_event = [h \in Clients |-> FALSE]
    /\ hpc = [h \in Clients |-> "idle"]
    /\ timedOut = [h \in Clients |-> FALSE]
    /\ outcome = [h \in Clients |-> None]
    /\ ppc = "off"
    /\ cur = 0
    /\ plen = 0
    /\ link = "none"
    /\ up = << >>
    /\ down = << >>
    /\ opc = "accept"
    /\ olen = 0
    /\ oreq = << >>
    /\ oresp = << >>
    /\ enq_log = << >>
    /\ deq_log = << >>
    /\ sent_log = << >>
    /\ done_log = << >>
    /\ read_log = << >>
    /\ served = << >>
    /\ out_log = << >>
    /\ broken = {}
    /\ afterDown = {}
    /\ gaveUp = {}
    /\ peer_log = << >>

Init == SystemInit /\ FrameIdle

\* ------------------------------------------------------- ShipProxy.start
\* connect_to_offshore succeeds: connected, the pump thread is started, and
\* main goes on to create the listener (OffshoreProxy.start accepted)
StartOk ==
    /\ started = "init"
    /\ started' = "ok"
    /\ running' = TRUE
    /\ connected' = TRUE
    /\ ppc' = "get"
    /\ link' = "up"
    /\ opc' = "read_header"
    /\ UNCHANGED << request_queue, req, response, error, response_event, hpc, timedOut,
                    outcome, cur, plen, up, down, olen, oreq, oresp, histVars, frameVars, peerVars >>

\* StartFail after which main goes on as if start had returned True
StartFail_ignored ==
    /\ started = "init"
    /\ started' = "ok"
    /\ running' = TRUE
    /\ ppc' = "get"
    /\ UNCHANGED << connected, request_queue, req, response, error, response_event, hpc,
                    timedOut, outcome, cur, plen, wireVars, offVars, histVars, frameVars,
                    peerVars >>

\* connect_to_offshore fails: start returns False, no pump thread, main
\* returns before the listener exists
StartFail ==
    /\ started = "init"
    /\ started' = "failed"
    /\ running' = TRUE
    /\ UNCHANGED << connected, request_queue, req, response, error, response_event, hpc,
                    timedOut, outcome, ppc, cur, plen, wireVars, offVars, histVars, frameVars, peerVars >>

\* ------------------------------------- ProxyHTTPRequestHandler.handle_request
\* up to and including queue_request: a RequestItem is built and put.  The
\* handler threads are alike, so the clients are numbered in the order in
\* which they reach the put.
queue_request(h, k) ==
    /\ started = "ok"
    /\ hpc[h] = "idle"
    /\ \A g \in Clients : g < h => hpc[g] # "idle"
    /\ req' = [req EXCEPT ![h] = Some(k)]
    /\ request_queue' = Append(request_queue, h)
    /\ hpc' = [hpc EXCEPT ![h] = "wait"]
    /\ enq_log' = Append(enq_log, h)
    /\ afterDown' = IF link = "down" THEN afterDown \cup {h} ELSE afterDown
    /\ UNCHANGED << started, running, connected, response, error, response_event, timedOut,
                    outcome, ppc, cur, plen, wireVars, offVars, deq_log, sent_log, done_log,
                    read_log, served, out_log, broken, frameVars, peerVars >>

\* response_event.wait(timeout=60) returns because the event is set
WaitSignalled(h) ==
    /\ hpc[h] = "wait"
    /\ response_event[h]
    /\ hpc' = [hpc EXCEPT ![h] = "check_error"]
    /\ UNCHANGED << started, running, connected, request_queue, req, response, error,
                    response_event, timedOut, outcome, ppc, cur, plen, wireVars, offVars,
                    histVars, frameVars, peerVars >>

\* CheckError that answers an error result with the timeout status
CheckError_504(h) ==
    /\ hpc[h] = "check_error"
    /\ IF TruthyStr(error[h])
       THEN /\ outcome' = [outcome EXCEPT ![h] = Some([kind |-> "send_error", code |-> 504,
                                                        message |-> error[h][1], data |-> << >>])]
            /\ hpc' = [hpc EXCEPT ![h] = "done"]
       ELSE /\ hpc' = [hpc EXCEPT ![h] = "check_response"]
            /\ UNCHANGED outcome
    /\ UNCHANGED << started, running, connected, request_queue, req, response, error,
                    response_event, timedOut, ppc, cur, plen, wireVars, offVars,
                    histVars, frameVars, peerVars >>

\* if request_item.error: send_error(502, ...); return
CheckError(h) ==
    /\ hpc[h] = "check_error"
    /\ IF TruthyStr(error[h])
       THEN /\ outcome' = [outcome EXCEPT ![h] = Some([kind |-> "send_error", code |-> 502,
                                                        message |-> error[h][1], data |-> << >>])]
            /\ hpc' = [hpc EXCEPT ![h] = "done"]
       ELSE /\ hpc' = [hpc EXCEPT ![h] = "check_response"]
            /\ UNCHANGED outcome
    /\ UNCHANGED << started, running, connected, request_queue, req, response, error,
                    response_event, timedOut, ppc, cur, plen, wireVars, offVars,
                    histVars, frameVars, peerVars >>

\* if not request_item.response: send_error(504, ...); return
\* self.wfile.write(request_item.response)
CheckResponse(h) ==
    /\ hpc[h] = "check_response"
    /\ outcome' = [outcome EXCEPT ![h] =
                     IF ~Truthy(response[h])
                     THEN Some([kind |-> "send_error", code |-> 504,
                                message |-> "Gateway Timeout", data |-> << >>])
                     ELSE Some([kind |-> "write", code |-> 0,
                                message |-> "", data |-> response[h][1]])]
    /\ hpc' = [hpc EXCEPT ![h] = "done"]
    /\ UNCHANGED << started, running, connected, request_queue, req, response, error,
                    response_event, timedOut, ppc, cur, plen, wireVars, offVars,
                    histVars, frameVars, peerVars >>


\* ------------------------------------------- ShipProxy.process_requests
\* PumpGet with a get that leaves the item on the queue
PumpGet_peek ==
    /\ ppc = "get"
    /\ running
    /\ request_queue # << >>
    /\ cur' = Head(request_queue)
    /\ deq_log' = Append(deq_log, Head(request_queue))
    /\ ppc' = "send"
    /\ UNCHANGED << started, running, connected, request_queue, req, response, error,
                    response_event, hpc, timedOut, outcome, plen, wireVars, offVars, enq_log,
                    sent_log, done_log, read_log, served, out_log, broken, afterDown,
                    frameVars, peerVars >>

\* PumpGet that does not exchange an item whose handler has stopped waiting
PumpGet_skips_abandoned ==
    /\ ppc = "get"
    /\ running
    /\ request_queue # << >>
    /\ cur' = Head(request_queue)
    /\ request_queue' = Tail(request_queue)
    /\ deq_log' = Append(deq_log, Head(request_queue))
    /\ IF ~connected \/ timedOut[Head(request_queue)]
       THEN /\ error' = [error EXCEPT ![Head(request_queue)] = Some("No connection to offshore proxy")]
            /\ ppc' = "set"
       ELSE /\ ppc' = "send"
            /\ UNCHANGED error
    /\ UNCHANGED << started, running, connected, req, response, response_event, hpc,
                    timedOut, outcome, plen, wireVars, offVars, enq_log, sent_log, done_log,
                    read_log, served, out_log, broken, afterDown, frameVars, peerVars >>

\* request_item = self.request_queue.get(timeout=1), the connected test and
\* build_request_string
PumpGet ==
    /\ ppc = "get"
    /\ running
    /\ request_queue # << >>
    /\ cur' = Head(request_queue)
    /\ request_queue' = Tail(request_queue)
    /\ deq_log' = Append(deq_log, Head(request_queue))
    /\ IF ~connected
       THEN /\ error' = [error EXCEPT ![Head(request_queue)] = Some("No connection to offshore proxy")]
            /\ ppc' = "set"
       ELSE /\ ppc' = "send"
            /\ UNCHANGED error
    /\ UNCHANGED << started, running, connected, req, response, response_event, hpc,
                    timedOut, outcome, plen, wireVars, offVars, enq_log, sent_log, done_log,
                    read_log, served, out_log, broken, afterDown, frameVars, peerVars >>

\* PumpSend that goes back to the queue without reading the response
PumpSend_pipelined ==
    /\ ppc = "send"
    /\ link = "up"
    /\ up' = up \o send_message(0, build_request_string(req[cur][1]))
    /\ sent_log' = Append(sent_log, cur)
    /\ ppc' = "get"
    /\ UNCHANGED << started, running, connected, request_queue, req, response, error,
                    response_event, hpc, timedOut, outcome, cur, plen, link, down, offVars,
                    enq_log, deq_log, done_log, read_log, served, out_log, broken, afterDown,
                    frameVars, peerVars >>

\* PumpSend that fires the item's signal as soon as the request is written
PumpSend_signals_first ==
    /\ ppc = "send"
    /\ \/ /\ link = "up"
          /\ up' = up \o send_message(0, build_request_string(req[cur][1]))
          /\ sent_log' = Append(sent_log, cur)
          /\ response_event' = [response_event EXCEPT ![cur] = TRUE]
          /\ ppc' = "read_header"
          /\ UNCHANGED << error, done_log >>
       \/ /\ link = "down"
          /\ \E e \in SendErrors :
                error' = [error EXCEPT ![cur] = Some(e)]
          /\ done_log' = Append(done_log, cur)
          /\ ppc' = "set"
          /\ UNCHANGED << up, sent_log, response_event >>
       \/ /\ link = "down"
          /\ ppc' = "read_header"
          /\ UNCHANGED << up, sent_log, error, done_log, response_event >>
    /\ UNCHANGED << started, running, connected, request_queue, req, response,
                    hpc, timedOut, outcome, cur, plen, link, down, offVars,
                    enq_log, deq_log, read_log, served, out_log, broken, afterDown, frameVars,
                    peerVars >>

\* self.send_message(0, request_str.encode('utf-8')).  On a broken
\* connection sendall raises, or returns while the bytes go nowhere.
PumpSend ==
    /\ ppc = "send"
    /\ \/ /\ link = "up"
          /\ up' = up \o send_message(0, build_request_string(req[cur][1]))
          /\ sent_log' = Append(sent_log, cur)
          /\ ppc' = "read_header"
          /\ UNCHANGED << error, done_log >>
       \/ /\ link = "down"
          /\ \E e \in SendErrors :
                error' = [error EXCEPT ![cur] = Some(e)]
          /\ done_log' = Append(done_log, cur)
          /\ ppc' = "set"
          /\ UNCHANGED << up, sent_log >>
       \/ /\ link = "down"
          /\ ppc' = "read_header"
          /\ UNCHANGED << up, sent_log, error, done_log >>
    /\ UNCHANGED << started, running, connected, request_queue, req, response,
                    response_event, hpc, timedOut, outcome, cur, plen, link, down, offVars,
                    enq_log, deq_log, read_log, served, out_log, broken, afterDown, frameVars, peerVars >>

\* PumpReadHeader whose failure escapes to the outer except of
\* process_requests: the item gets neither an error nor its signal
PumpReadHeader_escapes ==
    /\ ppc = "read_header"
    /\ \/ /\ Len(down) >= 5
          /\ down' = Drop(down, 5)
          /\ plen' = Unpack32(Take(down, 5))
          /\ ppc' = "read_payload"
          /\ UNCHANGED << cur, done_log >>
       \/ /\ Len(down) < 5
          /\ link = "down"
          /\ down' = << >>
          /\ done_log' = Append(done_log, cur)
          /\ cur' = 0
          /\ ppc' = "get"
          /\ UNCHANGED plen
    /\ UNCHANGED << started, running, connected, request_queue, req, response, error,
                    response_event, hpc, timedOut, outcome, link, up, offVars,
                    enq_log, deq_log, sent_log, read_log, served, out_log, broken,
                    afterDown, frameVars, peerVars >>

\* read_response, the header: _recv_all(5), the unpacking and the type test
PumpReadHeader ==
    /\ ppc = "read_header"
    /\ \/ /\ Len(down) >= 5
          /\ down' = Drop(down, 5)
          /\ LET header   == Take(down, 5)
                 length   == Unpack32(header)
                 msg_type == header[5]
             IN  IF msg_type # 1
                 THEN /\ error' = [error EXCEPT ![cur] = Some("Unexpected message type")]
                      /\ done_log' = Append(done_log, cur)
                      /\ ppc' = "set"
                      /\ UNCHANGED plen
                 ELSE /\ plen' = length
                      /\ ppc' = "read_payload"
                      /\ UNCHANGED << error, done_log >>
       \/ /\ Len(down) < 5
          /\ link = "down"
          /\ down' = << >>
          /\ error' = [error EXCEPT ![cur] = Some("Failed to read response header")]
          /\ done_log' = Append(done_log, cur)
          /\ ppc' = "set"
          /\ UNCHANGED plen
    /\ UNCHANGED << started, running, connected, request_queue, req, response,
                    response_event, hpc, timedOut, outcome, cur, link, up, offVars,
                    enq_log, deq_log, sent_log, read_log, served, out_log, broken,
                    afterDown, frameVars, peerVars >>

\* PumpReadPayload that stores the response in the item at the head of the
\* queue when there is one
PumpReadPayload_misrouted ==
    /\ ppc = "read_payload"
    /\ Len(down) >= plen
    /\ down' = Drop(down, plen)
    /\ LET response_data == Take(down, plen)
           target == IF request_queue # << >> THEN Head(request_queue) ELSE cur
       IN  /\ response' = [response EXCEPT ![target] = Some(response_data)]
           /\ read_log' = Append(read_log, << sent_log[Len(sent_log)], response_data >>)
    /\ done_log' = Append(done_log, cur)
    /\ ppc' = "set"
    /\ UNCHANGED << started, running, connected, request_queue, req, error, response_event,
                    hpc, timedOut, outcome, cur, plen, link, up, offVars, enq_log, deq_log,
                    sent_log, served, out_log, broken, afterDown, frameVars, peerVars >>

\* PumpReadPayload that drops the exchange of an item whose handler has
\* stopped waiting: the payload is left unread and no result is stored
PumpReadPayload_late_dropped ==
    /\ ppc = "read_payload"
    /\ IF timedOut[cur]
       THEN UNCHANGED << down, response, error, read_log >>
       ELSE \/ /\ Len(down) >= plen
               /\ down' = Drop(down, plen)
               /\ LET response_data == Take(down, plen)
                  IN  IF response_data = << >>
                      THEN /\ error' = [error EXCEPT ![cur] = Some("Failed to read response data")]
                           /\ UNCHANGED << response, read_log >>
                      ELSE /\ response' = [response EXCEPT ![cur] = Some(response_data)]
                           /\ read_log' = Append(read_log, << sent_log[Len(sent_log)], response_data >>)
                           /\ UNCHANGED error
            \/ /\ Len(down) < plen
               /\ link = "down"
               /\ down' = << >>
               /\ error' = [error EXCEPT ![cur] = Some("Failed to read response data")]
               /\ UNCHANGED << response, read_log >>
    /\ done_log' = Append(done_log, cur)
    /\ ppc' = "set"
    /\ UNCHANGED << started, running, connected, request_queue, req, response_event, hpc,
                    timedOut, outcome, cur, plen, link, up, offVars, enq_log, deq_log,
                    sent_log, served, out_log, broken, afterDown, frameVars, peerVars >>

\* read_response, the payload: _recv_all(length), the emptiness test, and
\* request_item.response = response
PumpReadPayload ==
    /\ ppc = "read_payload"
    /\ \/ /\ Len(down) >= plen
          /\ down' = Drop(down, plen)
          /\ LET response_data == Take(down, plen)
             IN  IF response_data = << >>
                 THEN /\ error' = [error EXCEPT ![cur] = Some("Failed to read response data")]
                      /\ UNCHANGED << response, read_log >>
                 ELSE /\ response' = [response EXCEPT ![cur] = Some(response_data)]
                      /\ read_log' = Append(read_log, << sent_log[Len(sent_log)], response_data >>)
                      /\ UNCHANGED error
       \/ /\ Len(down) < plen
          /\ link = "down"
          /\ down' = << >>
          /\ error' = [error EXCEPT ![cur] = Some("Failed to read response data")]
          /\ UNCHANGED << response, read_log >>
    /\ done_log' = Append(done_log, cur)
    /\ ppc' = "set"
    /\ UNCHANGED << started, running, connected, request_queue, req, response_event, hpc,
                    timedOut, outcome, cur, plen, link, up, offVars, enq_log, deq_log,
                    sent_log, served, out_log, broken, afterDown, frameVars, peerVars >>

\* PumpSignal that skips the set() for an item that carries an error
PumpSignal_skips_error ==
    /\ ppc = "set"
    /\ response_event' = [response_event EXCEPT ![cur] = ~TruthyStr(error[cur])]
    /\ cur' = 0
    /\ ppc' = "get"
    /\ UNCHANGED << started, running, connected, request_queue, req, response, error, hpc,
                    timedOut, outcome, plen, wireVars, offVars, histVars, frameVars, peerVars >>

\* request_item.response_event.set() (and task_done), back to the get
PumpSignal ==
    /\ ppc = "set"
    /\ response_event' = [response_event EXCEPT ![cur] = TRUE]
    /\ cur' = 0
    /\ ppc' = "get"
    /\ UNCHANGED << started, running, connected, request_queue, req, response, error, hpc,
                    timedOut, outcome, plen, wireVars, offVars, histVars, frameVars, peerVars >>

\* one step of the pump thread
PumpStep == PumpGet \/ PumpSend \/ PumpReadHeader \/ PumpReadPayload \/ PumpSignal

\* the pump thread is blocked: in request_queue.get on an empty queue, or in
\* recv on a live connection that has not delivered the bytes asked for
PumpBlocked == ~ENABLED PumpStep

\* response_event.wait(timeout=60) returns because 60 s went by.  Time goes
\* by only while the pump is blocked: every step the pump can take without
\* waiting for the peer or for a producer takes far less than the timeout.
WaitTimeout(h) ==
    /\ hpc[h] = "wait"
    /\ ~response_event[h]
    /\ PumpBlocked
    /\ hpc' = [hpc EXCEPT ![h] = "check_error"]
    /\ timedOut' = [timedOut EXCEPT ![h] = TRUE]
    /\ gaveUp' = IF h \in Range(request_queue) THEN gaveUp \cup {h} ELSE gaveUp
    /\ UNCHANGED << started, running, connected, request_queue, req, response, error,
                    response_event, outcome, ppc, cur, plen, wireVars, offVars,
                    histVars, frameVars, peer_log >>

\* ------------------------------------------------ the upstream connection
\* how much of a byte string may have arrived when the connection breaks:
\* nothing, part of the header, all but the last byte, all
BreakPoints(s) == {0, 2, Len(s) - 1, Len(s)} \cap 0..Len(s)

\* the bytes d hold everything the pump still has to read for its exchange
ResponseAvailable(d) ==
    \/ ppc = "read_header" /\ Len(d) >= 5 /\ Len(d) >= 5 + Unpack32(Take(d, 4))
    \/ ppc = "read_payload" /\ Len(d) >= plen

\* the connection breaks (peer gone, reset): from now on the ship's sends
\* fail and its reads end after the bytes that had arrived; request bytes
\* the offshore side has not read yet are lost
BreakLink ==
    /\ link = "up"
    /\ link' = "down"
    /\ \E n \in BreakPoints(down) :
          /\ down' = Take(down, n)
          /\ broken' = Range(request_queue) \cup
                         (IF \/ ppc = "send"
                             \/ ppc \in {"read_header", "read_payload"} /\ ~ResponseAvailable(Take(down, n))
                          THEN {cur} ELSE {})
    /\ up' = << >>
    /\ UNCHANGED << shipVars, offVars, enq_log, deq_log, sent_log, done_log, read_log,
                    served, out_log, afterDown, frameVars, peerVars >>

\* ------------------------------------ OffshoreProxy.handle_ship_connection
\* header = self._recv_all(conn, 5), the unpacking and the type test
OffReadHeader ==
    /\ opc = "read_header"
    /\ \/ /\ Len(up) >= 5
          /\ up' = Drop(up, 5)
          /\ LET header   == Take(up, 5)
                 length   == Unpack32(header)
                 msg_type == header[5]
             IN  IF msg_type # 0
                 THEN UNCHANGED << opc, olen >>
                 ELSE /\ olen' = length
                      /\ opc' = "read_payload"
          /\ UNCHANGED link
       \/ /\ Len(up) < 5
          /\ link = "down"
          /\ up' = << >>
          /\ opc' = "closed"
          /\ UNCHANGED << olen, link >>
    /\ UNCHANGED << shipVars, down, oreq, oresp, histVars, frameVars, peerVars >>

\* request_data = self._recv_all(conn, length) and the emptiness test; on
\* break the finally clause closes conn
OffReadPayload ==
    /\ opc = "read_payload"
    /\ \/ /\ Len(up) >= olen
          /\ up' = Drop(up, olen)
          /\ LET request_data == Take(up, olen)
             IN  IF request_data = << >>
                 THEN /\ opc' = "closed"
                      /\ link' = "down"
                      /\ broken' = IF link = "up"
                                   THEN Range(request_queue) \cup
                                          (IF cur # 0 /\ ppc \in {"send", "read_header", "read_payload"}
                                           THEN {cur} ELSE {})
                                   ELSE broken
                      /\ UNCHANGED oreq
                 ELSE /\ oreq' = request_data
                      /\ opc' = "process"
                      /\ UNCHANGED << link, broken >>
       \/ /\ Len(up) < olen
          /\ link = "down"
          /\ up' = << >>
          /\ opc' = "closed"
          /\ UNCHANGED << oreq, link, broken >>
    /\ UNCHANGED << shipVars, down, olen, oresp, enq_log, deq_log, sent_log, done_log,
                    read_log, served, out_log, afterDown, frameVars, peerVars >>

NoDest == [kind |-> "none", data |-> << >>]

\* the step below with r the value process_request returned
OffProcessed(dest, r) ==
    /\ opc = "process"
    /\ r.attempted \/ dest = NoDest
    /\ ~r.attempted \/ dest \in DestBehaviours
    /\ oresp' = r.response
    /\ served' = Append(served, [request |-> oreq, dest |-> dest,
                                 opened |-> r.opened, response |-> r.response])
    /\ opc' = "send"
    /\ UNCHANGED << shipVars, wireVars, olen, oreq, enq_log, deq_log, sent_log, done_log,
                    read_log, out_log, broken, afterDown, frameVars, peerVars >>

\* response = self.process_request(request_data), with the destination
\* behaving as dest
OffProcess(dest) == opc = "process" /\ OffProcessed(dest, process_request(oreq, dest))

\* OffSend that goes back to read the next header without writing a frame
OffSend_deferred ==
    /\ opc = "send"
    /\ opc' = IF link = "up" THEN "read_header" ELSE "closed"
    /\ UNCHANGED << shipVars, wireVars, olen, oreq, oresp, histVars, frameVars, peerVars >>

\* self.send_message(conn, 1, response); an exception closes conn
OffSend ==
    /\ opc = "send"
    /\ IF link = "up"
       THEN /\ down' = down \o send_message(1, oresp)
            /\ out_log' = Append(out_log, << 1, oresp >>)
            /\ opc' = "read_header"
       ELSE /\ opc' = "closed"
            /\ UNCHANGED << down, out_log >>
    /\ UNCHANGED << shipVars, link, up, olen, oreq, oresp, enq_log, deq_log, sent_log,
                    done_log, read_log, served, broken, afterDown, frameVars, peerVars >>

\* ------------------------------------------------------------------- Next
Next ==
    \/ StartOk
    \/ StartFail
    \/ \E h \in Clients : \E k \in ReqKinds : queue_request(h, k)
    \/ \E h \in Clients : WaitSignalled(h)
    \/ \E h \in Clients : WaitTimeout(h)
    \/ \E h \in Clients : CheckError(h)
    \/ \E h \in Clients : CheckResponse(h)
    \/ PumpGet
    \/ PumpSend
    \/ PumpReadHeader
    \/ PumpReadPayload
    \/ PumpSignal
    \/ BreakLink
    \/ OffReadHeader
    \/ OffReadPayload
    \/ \E dest \in DestBehaviours \cup {NoDest} : OffProcess(dest)
    \/ OffSend

Spec == Init /\ [][Next]_vars

\* the pump thread and the offshore loop keep running
FairSpec ==
    /\ Spec
    /\ WF_vars(PumpGet) /\ WF_vars(PumpSend) /\ WF_vars(PumpReadHeader)
    /\ WF_vars(PumpReadPayload) /\ WF_vars(PumpSignal)

\* ------------------------------------- the offshore side and any peer
\* OffshoreProxy.start accepts whoever connects to its port and serves the
\* connection with handle_ship_connection; the frames come from that peer.
\* A well-formed frame of a type other than 0 may carry a payload or not.
PeerFrames ==
    { << 0, build_request_string(k) >> : k \in ReqKinds }
        \cup { << 0, << >> >>, << 2, << >> >>, << 2, << 7 >> >> }

\* conn, addr = self.socket.accept()
PeerConnect ==
    /\ link = "none"
    /\ opc = "accept"
    /\ link' = "up"
    /\ opc' = "read_header"
    /\ UNCHANGED << shipVars, up, down, olen, oreq, oresp, histVars, frameVars, peerVars >>

\* the peer writes one frame to the connection
PeerSend(f) ==
    /\ link = "up"
    /\ opc # "accept"
    /\ started = "init"
    /\ Len(peer_log) < MaxPeerFrames
    /\ up' = up \o send_message(f[1], f[2])
    /\ peer_log' = Append(peer_log, f)
    /\ UNCHANGED << shipVars, link, down, offVars, histVars, frameVars, gaveUp >>

ExecNext ==
    \/ PeerConnect
    \/ \E f \in PeerFrames : PeerSend(f)
    \/ BreakLink
    \/ OffReadHeader
    \/ OffReadPayload
    \/ \E dest \in DestBehaviours \cup {NoDest} : OffProcess(dest)
    \/ OffSend

ExecSpec == Init /\ [][ExecNext]_vars

\* ---------------------------------------- the ship side and any peer
\* The pump talks to whatever listens at offshore_host:offshore_port.  The
\* peer answers each request frame with one well-formed frame, of type 1 or
\* of another type, with a payload or without.
PeerReplies == { << 1, DestReply >>, << 2, << >> >>, << 2, << 7 >> >> }

\* the peer has received a whole request frame and writes its answer
PeerReply(f) ==
    /\ link = "up"
    /\ started = "ok"
    /\ Len(up) >= 5
    /\ Len(up) >= 5 + Unpack32(Take(up, 4))
    /\ up' = Drop(up, 5 + Unpack32(Take(up, 4)))
    /\ down' = down \o send_message(f[1], f[2])
    /\ peer_log' = Append(peer_log, f)
    /\ UNCHANGED << shipVars, link, offVars, histVars, frameVars, gaveUp >>

PumpNext ==
    \/ StartOk
    \/ \E h \in Clients : \E k \in ReqKinds : queue_request(h, k)
    \/ \E h \in Clients : WaitSignalled(h)
    \/ \E h \in Clients : WaitTimeout(h)
    \/ \E h \in Clients : CheckError(h)
    \/ \E h \in Clients : CheckResponse(h)
    \/ PumpGet
    \/ PumpSend
    \/ PumpReadHeader
    \/ PumpReadPayload
    \/ PumpSignal
    \/ \E f \in PeerReplies : PeerReply(f)

PumpSpec == Init /\ [][PumpNext]_vars

\* -------------------------------------------------- framing round trip
\* One framed message written by send_message and read back by the side
\* that receives its type: ShipProxy.read_response reads type 1,
\* OffshoreProxy.handle_ship_connection reads type 0.  recv returns any
\* non-empty part of what was asked for.
PayloadBytes == {0, 1}

RECURSIVE SeqsUpTo(_, _)
SeqsUpTo(S, n) ==
    IF n = 0 THEN { << >> }
    ELSE LET shorter == SeqsUpTo(S, n - 1)
         IN  shorter \cup { Append(p, b) : p \in { q \in shorter : Len(q) = n - 1 }, b \in S }

Payloads == SeqsUpTo(PayloadBytes, MaxPayload) \cup { [i \in 1..LongPayload |-> i % 256] }

FrameInit ==
    /\ SystemInit
    /\ f_pc = "init"
    /\ f_msg \in {0, 1} \X Payloads
    /\ f_stream = << >>
    /\ f_data = << >>
    /\ f_len = 0
    /\ f_out = None
    /\ f_closed = None

\* send_message(msg_type, payload) on either side
FrameSend ==
    /\ f_pc = "init"
    /\ f_stream' = send_message(f_msg[1], f_msg[2])
    /\ f_pc' = "header"
    /\ UNCHANGED << shipVars, wireVars, offVars, histVars, f_msg, f_data, f_len, f_out, f_closed, peerVars >>

\* one pass of _recv_all's loop: chunk = recv(length - len(data)) returns n
\* bytes, data += chunk
FrameRecv(n) ==
    /\ f_pc \in {"header", "payload"}
    /\ LET length == IF f_pc = "header" THEN 5 ELSE f_len
       IN  /\ Len(f_data) < length
           /\ n >= 1
           /\ n <= length - Len(f_data)
           /\ n <= Len(f_stream)
    /\ f_data' = f_data \o Take(f_stream, n)
    /\ f_stream' = Drop(f_stream, n)
    /\ UNCHANGED << shipVars, wireVars, offVars, histVars, f_pc, f_msg, f_len, f_out, f_closed, peerVars >>

\* _recv_all(5) has returned the header: the unpacking and the type test
\* of the reading side
FrameHeader ==
    /\ f_pc = "header"
    /\ Len(f_data) >= 5
    /\ LET header   == f_data
           length   == Unpack32(header)
           msg_type == header[5]
       IN  IF f_msg[1] = 1
           THEN \* ShipProxy.read_response
                IF msg_type # 1
                THEN /\ f_out' = Some([status |-> "Unexpected message type", msg |-> << >>])
                     /\ f_pc' = "done"
                     /\ UNCHANGED f_len
                ELSE /\ f_len' = length
                     /\ f_pc' = "payload"
                     /\ UNCHANGED f_out
           ELSE \* OffshoreProxy.handle_ship_connection
                IF msg_type # 0
                THEN /\ f_out' = Some([status |-> "skipped", msg |-> << >>])
                     /\ f_pc' = "done"
                     /\ UNCHANGED f_len
                ELSE /\ f_len' = length
                     /\ f_pc' = "payload"
                     /\ UNCHANGED f_out
    /\ f_data' = << >>
    /\ UNCHANGED << shipVars, wireVars, offVars, histVars, f_msg, f_stream, f_closed, peerVars >>

\* _recv_all(length) has returned the payload: the emptiness test of the
\* reading side, then the message is delivered
FramePayload ==
    /\ f_pc = "payload"
    /\ Len(f_data) >= f_len
    /\ f_out' = IF f_data = << >>
                THEN IF f_msg[1] = 1
                     THEN Some([status |-> "Failed to read response data", msg |-> << >>])
                     ELSE Some([status |-> "break", msg |-> << >>])
                ELSE Some([status |-> "ok",
                           msg |-> << IF f_msg[1] = 1 THEN 1 ELSE 0, f_data >>])
    /\ f_pc' = "done"
    /\ UNCHANGED << shipVars, wireVars, offVars, histVars, f_msg, f_stream, f_data, f_len, f_closed, peerVars >>

\* the peer closes the connection when only n of the bytes not yet read
\* have been written
FrameClose(n) ==
    /\ f_pc \in {"header", "payload"}
    /\ f_closed = None
    /\ n \in BreakPoints(f_stream)
    /\ f_stream' = Take(f_stream, n)
    /\ f_closed' = Some((IF f_pc = "header" THEN 0 ELSE 5) + Len(f_data) + n)
    /\ UNCHANGED << shipVars, wireVars, offVars, histVars, f_pc, f_msg, f_data, f_len, f_out,
                    peerVars >>

\* FrameEof whose _recv_all returns the bytes collected so far
FrameEof_short ==
    /\ f_pc \in {"header", "payload"}
    /\ f_closed # None
    /\ f_stream = << >>
    /\ Len(f_data) < (IF f_pc = "header" THEN 5 ELSE f_len)
    /\ f_out' = IF f_pc = "header"
                THEN Some([status |-> "break", msg |-> << >>])
                ELSE Some([status |-> "ok", msg |-> << f_msg[1], f_data >>])
    /\ f_pc' = "done"
    /\ UNCHANGED << shipVars, wireVars, offVars, histVars, f_msg, f_stream, f_data, f_len,
                    f_closed, peerVars >>

\* chunk = recv(...) returns b'' on the closed connection: _recv_all returns
\* None, read_response raises, handle_ship_connection breaks
FrameEof ==
    /\ f_pc \in {"header", "payload"}
    /\ f_closed # None
    /\ f_stream = << >>
    /\ Len(f_data) < (IF f_pc = "header" THEN 5 ELSE f_len)
    /\ f_out' = IF f_msg[1] = 1
                THEN IF f_pc = "header"
                     THEN Some([status |-> "Failed to read response header", msg |-> << >>])
                     ELSE Some([status |-> "Failed to read response data", msg |-> << >>])
                ELSE Some([status |-> "break", msg |-> << >>])
    /\ f_pc' = "done"
    /\ UNCHANGED << shipVars, wireVars, offVars, histVars, f_msg, f_stream, f_data, f_len,
                    f_closed, peerVars >>

FrameNext ==
    \/ FrameSend
    \/ \E n \in 1..(LongPayload + 5) : FrameRecv(n)
    \/ FrameHeader
    \/ FramePayload

FrameSpec == FrameInit /\ [][FrameNext]_vars

\* the same, with a peer that may close the connection at any point
FrameCutNext ==
    \/ FrameNext
    \/ \E n \in 0..(LongPayload + 5) : FrameClose(n)
    \/ FrameEof

FrameCutSpec == FrameInit /\ [][FrameCutNext]_vars

TypeOK ==
    /\ started \in {"init", "ok", "failed"}
    /\ ppc \in {"off", "get", "send", "read_header", "read_payload", "set"}
    /\ opc \in {"accept", "read_header", "read_payload", "process", "send", "closed"}
    /\ link \in {"none", "up", "down"}
    /\ cur \in Clients \cup {0}

\* ------------------------------------------------------------ properties
Pos(log, h) == CHOOSE i \in 1..Len(log) : log[i] = h

NoDup(log) == \A i, j \in 1..Len(log) : i # j => log[i] # log[j]

Result(h) == outcome[h][1]

IsConnect(h) == req[h] # None /\ req[h][1].method = CONNECT

\* clients whose request frame is on the connection and whose exchange has
\* not ended
InFlight == Range(sent_log) \ Range(done_log)

\* C1: the pump writes the request frames in the order the requests were
\* enqueued, and the response read after writing request R is stored in R's
\* own RequestItem: the payload read_response returns goes to the client
\* whose frame was written last, and it is the response the offshore side
\* wrote for that client's request frame.
C1_FifoAndRouting ==
    /\ \A i, j \in 1..Len(sent_log) :
          i < j => Pos(enq_log, sent_log[i]) < Pos(enq_log, sent_log[j])
    /\ \A i \in 1..Len(read_log) : response[read_log[i][1]] = Some(read_log[i][2])
    /\ \A h \in Clients :
          response[h] # None =>
             /\ \E i \in 1..Len(read_log) : read_log[i][1] = h
             /\ \E k \in 1..Len(sent_log) :
                   /\ sent_log[k] = h
                   /\ k <= Len(out_log)
                   /\ served[k].request = build_request_string(req[h][1])
                   /\ out_log[k] = << 1, response[h][1] >>

\* C1 witness: two requests were written and each client holds the response
\* to its own request
C1_Witness ==
    /\ Len(sent_log) = NumClients
    /\ \A h \in Clients : response[h] # None
    /\ \E h \in Clients : IsConnect(h)
    /\ \E h \in Clients : ~IsConnect(h)

\* C2: at most one request/response exchange is in flight on the upstream
\* connection, and the pump is never about to call send_message while an
\* earlier exchange has not ended.
C2_SingleInFlight ==
    /\ Cardinality(InFlight) <= 1
    /\ ppc \in {"get", "send"} => InFlight = {}

\* C2 witness: the second request is in flight, the first exchange over
C2_Witness ==
    /\ Len(sent_log) = 2
    /\ InFlight = { sent_log[2] }

\* C3: once the connection has broken, every request that was queued, and
\* the one in flight whose response had not arrived in full, gets its
\* completion signal with an error result, and never a response.
C3_BrokenAllFail ==
    /\ [](\A h \in broken : response_event[h] => TruthyStr(error[h]) /\ response[h] = None)
    /\ \A h \in Clients : (h \in broken) ~> (response_event[h] /\ TruthyStr(error[h]))

\* C3 witness: the connection broke with one request queued and one in
\* flight, and both were signalled with an error
C3_Witness ==
    /\ Cardinality(broken) >= 2
    /\ \A h \in broken : response_event[h] /\ TruthyStr(error[h])

\* C4: a message written by send_message and read back by the receiving
\* side is delivered as the original (type, payload), without error, for
\* both types and every payload, the empty one included.
C4_RoundTrip ==
    f_pc = "done" => f_out = Some([status |-> "ok", msg |-> f_msg])

\* the index of client h's request frame among those the offshore side
\* processed, 0 if it has not been processed
ServedIndex(h) ==
    IF \E k \in 1..Len(served) : k <= Len(sent_log) /\ sent_log[k] = h
    THEN CHOOSE k \in 1..Len(served) : k <= Len(sent_log) /\ sent_log[k] = h
    ELSE 0

\* C5: for a non-CONNECT request whose destination accepted the connection
\* and replied, on a connection that is up and with the client's wait not
\* timed out, the client receives exactly the bytes the destination sent.
C5_Passthrough ==
    \A h \in Clients :
        ( /\ hpc[h] = "done"
          /\ ~IsConnect(h)
          /\ ~timedOut[h]
          /\ link = "up"
          /\ ServedIndex(h) # 0
          /\ served[ServedIndex(h)].opened # None
          /\ served[ServedIndex(h)].dest.kind = "reply" )
        => /\ Result(h).kind = "write"
           /\ Result(h).data = served[ServedIndex(h)].dest.data

\* C6: handle_request answers 502 when its wait was signalled with an error
\* result (and 502 always carries the pump's error), 504 only when the wait
\* ended by timeout, and otherwise writes the response bytes as stored.
C6_OutcomeMapping ==
    \A h \in Clients :
        hpc[h] = "done" =>
            /\ Result(h).code \in {0, 502, 504}
            /\ Result(h).kind = "write" <=> Result(h).code = 0
            /\ Result(h).code = 502 => TruthyStr(error[h]) /\ Result(h).message = error[h][1]
            /\ Result(h).code = 504 => timedOut[h]
            /\ Result(h).kind = "write" => response[h] = Some(Result(h).data)
            /\ ~timedOut[h] =>
                  IF TruthyStr(error[h]) THEN Result(h).code = 502
                  ELSE Result(h).kind = "write"

\* C6 witness: one client was answered 502 on a signalled error, another 504
C6_Witness ==
    /\ \E h \in Clients : hpc[h] = "done" /\ ~timedOut[h] /\ Result(h).code = 502
    /\ \E h \in Clients : hpc[h] = "done" /\ Result(h).code = 504

\* C7: whenever the destination cannot be contacted (resolution or connect
\* fails, or no byte arrives before the timeout) the offshore side answers
\* with a synthesized 502 or 500 response, and it does not close the
\* upstream connection.
C7_DestFailureSynthesized ==
    /\ \A k \in 1..Len(served) :
          served[k].dest.kind \in {"refused", "timeout0"} =>
              served[k].response \in { create_error_response(502, BadGateway),
                                       create_error_response(500, InternalServerError) }
    /\ link = "up" => opc # "closed"

\* C8: a CONNECT request frame makes the offshore side open no destination
\* connection and answer with the canned response as a type 1 frame, and a
\* client that is handed a response to its CONNECT is handed exactly that.
C8_ConnectCanned ==
    /\ \A k \in 1..Len(served) :
          StartsWith(served[k].request, CONNECT \o << SP >>) =>
              /\ served[k].dest = NoDest
              /\ served[k].opened = None
              /\ served[k].response = ConnectionEstablished
              /\ k <= Len(out_log) => out_log[k] = << 1, ConnectionEstablished >>
    /\ \A h \in Clients :
          IsConnect(h) =>
              /\ response[h] # None => response[h] = Some(ConnectionEstablished)
              /\ (hpc[h] = "done" /\ Result(h).kind = "write")
                    => Result(h).data = ConnectionEstablished
              /\ (hpc[h] = "done" /\ ~timedOut[h] /\ ~TruthyStr(error[h]))
                    => Result(h).kind = "write"

\* C8 witness: a client's CONNECT was answered with the canned response
C8_Witness ==
    \E h \in Clients :
        /\ IsConnect(h)
        /\ hpc[h] = "done"
        /\ Result(h).kind = "write"
        /\ Result(h).data = ConnectionEstablished

\* C9: a request enqueued after the connection went down is signalled with
\* an error before its wait can time out, and its client is answered 502.
C9_DownMeans502 ==
    \A h \in afterDown :
        /\ ~timedOut[h]
        /\ response_event[h] => TruthyStr(error[h])
        /\ hpc[h] = "done" => Result(h).code = 502

\* C9 witness: a client that enqueued on the broken connection got its 502
C9_Witness ==
    \E h \in afterDown : hpc[h] = "done" /\ Result(h).code = 502

\* C10: every item put on the queue is taken by the pump at most once and
\* none is lost, and every item taken before the latest one has its signal
\* fired with a result; when the pump is back at the get, so has the latest.
C10_NoDoubleNoDrop ==
    /\ NoDup(deq_log)
    /\ enq_log = deq_log \o request_queue
    /\ \A i \in 1..Len(deq_log) :
          (i < Len(deq_log) \/ ppc = "get") =>
              /\ response_event[deq_log[i]]
              /\ TruthyStr(error[deq_log[i]]) \/ response[deq_log[i]] # None

\* C10 witness: the pump took a second item after signalling the first
C10_Witness ==
    /\ Len(deq_log) = 2
    /\ response_event[deq_log[1]]
    /\ ~response_event[deq_log[2]]

\* C11: when the one connection attempt of ShipProxy.start has failed
\* (running is set, connected is not), start has reported failure, the pump
\* thread does not exist, no client was accepted and nothing was enqueued,
\* and no connection exists: the attempt is not repeated.
C11_FailFastStart ==
    (running /\ ~connected) =>
        /\ started = "failed"
        /\ ppc = "off"
        /\ cur = 0
        /\ \A h \in Clients : hpc[h] = "idle" /\ req[h] = None
        /\ enq_log = << >>
        /\ request_queue = << >>
        /\ link = "none"
        /\ opc = "accept"

\* C11 witness: start has failed
C11_Witness == started = "failed" /\ running /\ ~connected

IsRequestFrame(f) == f[1] = 0

\* the payloads of the type 0 frames the peer wrote, in order
PeerRequests == LET reqs == SelectSeq(peer_log, IsRequestFrame)
                IN  [k \in 1..Len(reqs) |-> reqs[k][2]]

\* the offshore loop is blocked in recv on a live connection
ExecWaiting ==
    /\ link = "up"
    /\ \/ opc = "read_header" /\ Len(up) < 5
       \/ opc = "read_payload" /\ Len(up) < olen

\* C12: a frame whose type is not 0 is skipped whole, header and declared
\* payload, without a response and with the connection kept: whenever the
\* offshore loop waits for bytes on a live connection it waits at a frame
\* boundary, and the requests it has answered are exactly the type 0
\* frames the peer wrote, in order.
C12_SkipsWholeMessage ==
    ExecWaiting =>
        /\ opc = "read_header"
        /\ up = << >>
        /\ Len(out_log) = Len(served)
        /\ Len(served) = Len(PeerRequests)
        /\ \A k \in 1..Len(served) : served[k].request = PeerRequests[k]

\* C18: the offshore loop ends, and closes the connection, only after the
\* connection has gone down (the peer closed it, or a recv or sendall on it
\* failed); no frame read from a live connection makes it end.
C18_ClosesOnlyOnFailure ==
    [][ (opc # "closed" /\ opc' = "closed") => link = "down" ]_vars

\* C17: the offshore loop answers one request frame at a time: it is at a
\* header read, a payload read or process_request only when every request
\* it has processed has had its type 1 frame written; the frames written
\* are the responses computed, in the order of the requests, and never more
\* than the requests read.
C17_StrictlySequential ==
    /\ Len(out_log) <= Len(served)
    /\ Len(served) <= Len(out_log) + 1
    /\ opc \in {"read_header", "read_payload", "process"} => Len(out_log) = Len(served)
    /\ \A k \in 1..Len(out_log) : out_log[k] = << 1, served[k].response >>
    /\ \A k \in 1..Len(served) :
          /\ k <= Len(PeerRequests)
          /\ (\A j \in 1..Len(peer_log) : peer_log[j][1] = 0) => served[k].request = PeerRequests[k]

\* C17 witness: the peer wrote two request frames back to back and the
\* offshore loop has answered both, one after the other
C17_Witness ==
    /\ Len(peer_log) = 2
    /\ \A j \in 1..2 : peer_log[j][1] = 0 /\ peer_log[j][2] # << >>
    /\ Len(out_log) = 2
    /\ opc = "read_header"
    /\ link = "up"

ClosedStatus == { "Failed to read response header", "Failed to read response data", "break" }

\* C13: however recv splits the stream, the header is handed on only as
\* 5 bytes and the payload only with the declared number of bytes, so a
\* message delivered is the whole message written; and when the peer closes
\* before the whole frame was written, the read ends as a closed
\* connection (an exception in read_response, the end of the offshore
\* loop), never as a message.
C13_ExactOrClosed ==
    /\ Len(f_data) <= (IF f_pc = "header" THEN 5 ELSE IF f_pc = "payload" THEN f_len ELSE Len(f_data))
    /\ f_pc = "payload" => f_len = Len(f_msg[2])
    /\ f_pc = "done" =>
          /\ f_out[1].status = "ok" => f_out[1].msg = f_msg
          /\ (f_closed # None /\ f_closed[1] < 5 + Len(f_msg[2]))
                => f_out[1].status \in ClosedStatus /\ f_out[1].msg = << >>

\* C13 witness: the peer closed in the middle of the payload, part of the
\* payload had been collected, and the read ended as a closed connection
C13_Witness ==
    /\ f_pc = "done"
    /\ f_closed # None
    /\ f_closed[1] > 5
    /\ f_closed[1] < 5 + Len(f_msg[2])
    /\ f_data # << >>
    /\ f_out[1].status \in ClosedStatus

\* the exchange of client h ended with a failure of sendall or recv
IOFailed(h) ==
    error[h] \in { Some(e) : e \in SendErrors } \cup { Some("Failed to read response header") }

\* C14: once an exchange has failed in send_message or read_response the
\* pump is disconnected (connected is false), and every request dequeued
\* after the failed one is failed with the connection error without its
\* frame being written to the socket.
C14_DisconnectedAfterFailure ==
    \A i \in 1..Len(deq_log) :
        IOFailed(deq_log[i]) =>
            /\ ~connected
            /\ \A j \in 1..Len(deq_log) :
                  j > i => /\ ppc # "send"
                           /\ deq_log[j] \notin Range(sent_log)
                           /\ error[deq_log[j]] = Some("No connection to offshore proxy")

\* C15: a frame of a type other than 1 read while a response is awaited
\* fails that one request only and leaves the stream at a frame boundary:
\* every request whose answer was a type 1 frame is handed that frame's
\* payload, every request whose answer was of another type is handed an
\* error, and between exchanges no byte of an earlier frame is left unread.
C15_FramingIntact ==
    /\ \A k \in 1..Len(sent_log) :
          (k <= Len(peer_log) /\ response_event[sent_log[k]]) =>
              IF peer_log[k][1] = 1
              THEN response[sent_log[k]] = Some(peer_log[k][2]) /\ error[sent_log[k]] = None
              ELSE TruthyStr(error[sent_log[k]]) /\ response[sent_log[k]] = None
    /\ (link = "up" /\ ppc \in {"get", "send"}) => down = << >>

\* the exchange of client g ended on a live connection with the result
\* that belongs to g: the payload of the frame written in answer to g's
\* request frame, or an error when that payload was empty
OwnResult(g) ==
    LET k == Pos(sent_log, g)
    IN  /\ g \in Range(sent_log)
        /\ k <= Len(out_log)
        /\ served[k].request = build_request_string(req[g][1])
        /\ IF out_log[k][2] # << >>
           THEN response[g] = Some(out_log[k][2]) /\ error[g] = None
           ELSE response[g] = None /\ TruthyStr(error[g])

\* C16: when the handler of request R has timed out and the pump completes
\* R's exchange afterwards, the result goes into R's own item and is
\* written once, the pump goes on to fire R's signal, and every request
\* dequeued after R still ends with the answer to its own request frame.
C16_LateResultSafe ==
    /\ NoDup(done_log)
    /\ \A h \in Clients :
          (timedOut[h] /\ h \in Range(done_log)) =>
              /\ response_event[h] \/ (cur = h /\ ppc = "set")
              /\ ~(response[h] # None /\ error[h] # None)
              /\ link = "up" => OwnResult(h)
              /\ \A g \in Range(done_log) :
                    (link = "up" /\ Pos(deq_log, g) > Pos(deq_log, h)) => OwnResult(g)

\* C16 witness: a client was answered 504, the response to its request
\* arrived late and was stored in its item, and the next client was handed
\* the response to its own request
C16_Witness ==
    \E h, g \in Clients :
        /\ timedOut[h] /\ hpc[h] = "done" /\ Result(h).code = 504
        /\ response_event[h] /\ response[h] # None
        /\ g \in Range(done_log)
        /\ Pos(deq_log, g) > Pos(deq_log, h)
        /\ ~timedOut[g] /\ hpc[g] = "done" /\ Result(g).kind = "write"
        /\ OwnResult(g)

\* C19: while the connection is up, every request the pump has dequeued
\* and is past sending has had its frame written upstream, and its
\* response is being awaited or its exchange has ended, whether or not its
\* handler had timed out while the item was still on the queue.
C19_NoSkipOnGiveUp ==
    link = "up" =>
        \A i \in 1..Len(deq_log) :
            (i < Len(deq_log) \/ ppc # "send") =>
                /\ deq_log[i] \in Range(sent_log)
                /\ \/ deq_log[i] \in Range(done_log)
                   \/ cur = deq_log[i] /\ ppc \in {"read_header", "read_payload"}

\* C19 witness: a client whose wait timed out while its item was queued was
\* answered 504, and afterwards its request was written upstream and
\* executed by the offshore side
C19_Witness ==
    \E h \in gaveUp :
        /\ hpc[h] = "done"
        /\ Result(h).code = 504
        /\ h \in Range(sent_log)
        /\ ServedIndex(h) # 0
        /\ served[ServedIndex(h)].request = build_request_string(req[h][1])

\* C20: an item whose response_event is set holds its result: exactly one
\* of response and error is set; and from then on the event stays set and
\* neither response nor error changes.
C20_SignalAfterResult ==
    /\ [](\A h \in Clients :
            response_event[h] => (response[h] # None) # (error[h] # None))
    /\ [][\A h \in Clients :
            response_event[h] => /\ response_event'[h]
                                 /\ response'[h] = response[h]
                                 /\ error'[h] = error[h]]_vars

\* C20 witness: one item was signalled with a response, another with an
\* error
C20_Witness ==
    /\ \E h \in Clients : response_event[h] /\ response[h] # None /\ error[h] = None
    /\ \E h \in Clients : response_event[h] /\ response[h] = None /\ error[h] # None

====
